---- MODULE Spec2Model ----
(***************************************************************************)
(* Model of src/src/app/page.tsx (AdminDashboard): the React component     *)
(* state, the three realtime-database listeners registered by the effect,  *)
(* the resolution workflow (handleResponseSubmit -> toggleResolveStatus -> *)
(* sendNotificationToUser) and handleBlockUser, together with the remote   *)
(* database they read and write.                                           *)
(*                                                                         *)
(* JavaScript objects are functions from field names to values; a field    *)
(* that is absent is not in the DOMAIN.  A database node with no children  *)
(* does not exist.  Every await is a suspension point: the remote call is  *)
(* issued by one action, settled by the server in another, and the code    *)
(* after the await runs in a third.                                        *)
(***************************************************************************)
EXTENDS Integers, Sequences, FiniteSets, TLC

VARIABLES
    ui,            \* the component's useState cells (page.tsx 37-46)
    subs,          \* the three onValue listeners: "off", "on" or "cancelled"
    dbReports,     \* remote collection reports/<key>
    dbUsers,       \* remote collection users/<uid>, notifications nested
    inv,           \* invocations of handleResponseSubmit, in click order
    blk,           \* invocations of handleBlockUser, in click order
    everResolved,  \* history: report keys whose remote status was 'resolved'
    life           \* "mounted", "unmounted", or "leaked" once a listener
                   \* callback has run after the component was unmounted

vars == <<ui, subs, dbReports, dbUsers, inv, blk, everResolved, life>>

----------------------------------------------------------------------------
(* Bounds *)

MaxReports == 2     \* report keys are 1..MaxReports
MaxCalls == 2       \* clicks on "Submit Response" or "Block User"
MaxInFlight == 1    \* handler invocations awaiting a remote call at once

ReportKeys == 1..MaxReports
UserIds == {"u1", "u2"}
Texts == {"thanks"}
SubNames == {"reports", "users", "resolved"}

----------------------------------------------------------------------------
(* JavaScript values *)

NoError == "null"          \* useState<string | null>(null)
Null == {}                 \* selectedReport === null
Some(r) == {r}             \* selectedReport holds the report r
TheOne(s) == CHOOSE r \in s : TRUE

NoNode == <<>>             \* a path with no data

\* obj.k, with undefined for an absent field
Get(obj, k) == IF k \in DOMAIN obj THEN obj[k] ELSE "undefined"

\* { ...a, ...b }: the fields of b override those of a
ObjectSpread(a, b) ==
    [k \in DOMAIN a \cup DOMAIN b |-> IF k \in DOMAIN b THEN b[k] ELSE a[k]]

\* Date.now() in the i-th invocation of the workflow: the values are only
\* stored, never compared, so each call gets a distinct positive stamp
DateNow(i, step) == IF step = "A" THEN 2 * i - 1 ELSE 2 * i

\* x || '' for a string-valued field that may be absent or empty
OrEmpty(x) == IF x = "undefined" THEN "" ELSE x

----------------------------------------------------------------------------
(* The remote database (firebase/database: update, set, onValue) *)

\* update(ref, partial): merges the fields into whatever the path holds
Update(node, partial) == ObjectSpread(node, partial)

\* a variant of SetNotification that stores the record under a fresh key
\* (its time stamp), as push() would, instead of under the report id
SetNotificationPush(userNode, reportId, rec) ==
    ObjectSpread(userNode,
        [notifications |->
            ObjectSpread(IF "notifications" \in DOMAIN userNode
                             THEN userNode.notifications ELSE NoNode,
                         (rec.createdAt :> rec))])

\* set(ref(users/<uid>/notifications/<reportId>), rec) seen from users/<uid>
SetNotification(userNode, reportId, rec) ==
    ObjectSpread(userNode,
        [notifications |->
            ObjectSpread(IF "notifications" \in DOMAIN userNode
                             THEN userNode.notifications ELSE NoNode,
                         (reportId :> rec))])

Exists(node) == DOMAIN node # {}

\* the children of reports/, in key order, as snapshot.forEach visits them
RECURSIVE ChildKeysFrom(_)
ChildKeysFrom(k) ==
    IF k > MaxReports THEN <<>>
    ELSE IF Exists(dbReports[k]) THEN <<k>> \o ChildKeysFrom(k + 1)
    ELSE ChildKeysFrom(k + 1)

ChildKeys == ChildKeysFrom(1)

\* snapshot.size of users/
UsersSize == Cardinality({u \in UserIds : Exists(dbUsers[u])})

\* snapshot.size of query(reports, orderByChild('status'), equalTo('resolved'))
ResolvedSize ==
    Cardinality({k \in ReportKeys :
        Exists(dbReports[k]) /\ Get(dbReports[k], "status") = "resolved"})

----------------------------------------------------------------------------
(* Records that end users store under reports/ (created outside this code) *)

Templates == {
    [status |-> "pending", userId |-> "u1", matterType |-> "Community",
     name |-> "n1"],
    [id |-> 1, status |-> "resolved", resolvedAt |-> 0, response |-> "thanks",
     userId |-> "u2", matterType |-> "Legal", name |-> "n1"] }

----------------------------------------------------------------------------
(* The component: pure parts of the handlers *)

\* page.tsx 58-61: { id: childSnapshot.key, ...childSnapshot.val() }
Materialize(key, val) == ObjectSpread([id |-> key], val)

\* page.tsx 56-63: the list built by snapshot.forEach
ReportsData == [n \in 1..Len(ChildKeys) |->
                    Materialize(ChildKeys[n], dbReports[ChildKeys[n]])]

\* a variant of OnReports that counts only the pending reports
OnReportsCountPending(s, reportsData) ==
    [s EXCEPT !.reports = reportsData,
              !.stats = [@ EXCEPT !.totalReports =
                  Len(SelectSeq(reportsData,
                                LAMBDA r : Get(r, "status") = "pending"))]]

\* a variant of OnReports that forgets the setStats call
OnReportsListOnly(s, reportsData) == [s EXCEPT !.reports = reportsData]

\* page.tsx 64-65: setReports(reportsData); setStats(prev => ...)
OnReports(s, reportsData) ==
    [s EXCEPT !.reports = reportsData,
              !.stats = [@ EXCEPT !.totalReports = Len(reportsData)]]

\* a variant of OnUsers that writes a fresh stats object instead of
\* spreading the previous one
OnUsersReplace(s, size) ==
    [s EXCEPT !.stats = [totalUsers |-> size, totalReports |-> 0,
                         resolvedReports |-> 0]]

\* page.tsx 73
OnUsers(s, size) == [s EXCEPT !.stats = [@ EXCEPT !.totalUsers = size]]

\* a variant of OnResolved that drops the delivered count
OnResolvedIgnored(s, size) == s

\* page.tsx 81
OnResolved(s, size) == [s EXCEPT !.stats = [@ EXCEPT !.resolvedReports = size]]

\* page.tsx 66-69
OnReportsError(s) ==
    [s EXCEPT !.error = "Unable to fetch reports. Please check your permissions."]

\* page.tsx 74-76: console.error only
OnUsersError(s) == s

\* page.tsx 82-84: console.error only
OnResolvedError(s) == s

\* a variant of ToggledStatus that marks the report resolved unconditionally
AlwaysResolved(currentStatus) == "resolved"

\* page.tsx 102
ToggledStatus(currentStatus) ==
    IF currentStatus = "resolved" THEN "pending" ELSE "resolved"

\* a variant of StatusPatch that leaves the status out of the update
StatusPatchKeepsStatus(currentStatus, response, t) ==
    [response |-> OrEmpty(response), resolvedAt |-> t]

\* page.tsx 101-105: the object passed to update()
StatusPatch(currentStatus, response, t) ==
    [status |-> ToggledStatus(currentStatus),
     response |-> OrEmpty(response),
     resolvedAt |-> t]

\* page.tsx 106-109: the catch of toggleResolveStatus (it does not rethrow)
ToggleCatch(s) ==
    [s EXCEPT !.error =
        "Unable to update report status. Please check your permissions."]

\* page.tsx 115-121: the object passed to set()
Notification(reportId, response, t) ==
    [type |-> "report_response",
     message |-> <<"Your report (ID: ", reportId, ") has been responded to.">>,
     response |-> response, createdAt |-> t, read |-> FALSE]

\* page.tsx 128-131
ReportClick(s, report) ==
    [s EXCEPT !.selectedReport = Some(report),
              !.responseText = OrEmpty(Get(report, "response"))]

\* a variant of SubmitSuccess that closes the modal but keeps the draft
SubmitSuccessKeepsDraft(s) == [s EXCEPT !.selectedReport = Null]

\* a variant of SubmitSuccess that also counts the report as resolved
\* locally instead of waiting for the listener
SubmitSuccessOptimistic(s) ==
    [s EXCEPT !.selectedReport = Null, !.responseText = "",
              !.stats = [@ EXCEPT !.resolvedReports = @ + 1]]

\* page.tsx 142-144
SubmitSuccess(s) == [s EXCEPT !.selectedReport = Null, !.responseText = ""]

\* a variant of SubmitCatch for a rejection that leaves handleResponseSubmit
\* uncaught: no state setter runs
SubmitEscapes(s) == s

\* a variant of SubmitCatch that closes the modal as the success path does
SubmitCatchReset(s) ==
    [s EXCEPT !.error = "Failed to submit response. Please try again.",
              !.selectedReport = Null, !.responseText = ""]

\* page.tsx 145-148
SubmitCatch(s) ==
    [s EXCEPT !.error = "Failed to submit response. Please try again."]

\* a variant of BlockWrite that uses set() and so replaces the user record
BlockSet(userNode) == [blocked |-> TRUE]

\* page.tsx 154-155: update(ref(users/<userId>), { blocked: true })
BlockWrite(userNode) == Update(userNode, [blocked |-> TRUE])

\* page.tsx 157-160
BlockCatch(s) ==
    [s EXCEPT !.error = "Unable to block user. Please check your permissions."]

\* a variant of StepASettled for a call of toggleResolveStatus without await
StepANotAwaited(iv) == TRUE

\* page.tsx 134-137: the await of step A has settled
StepASettled(iv) == iv.a \in {"ok", "rejected"}

\* page.tsx 182: the filter of communityChartData
IsCommunity(report) == Get(report, "matterType") = "Community"

\* a variant of CommunityChartData without the filter
ChartAllReports(reports) ==
    [k \in 1..Len(reports) |-> [name |-> Get(reports[k], "name"), reports |-> 1]]

\* page.tsx 181-187: communityChartData, computed from reports at each render
CommunityChartData(reports) ==
    LET community == SelectSeq(reports, IsCommunity)
    IN  [k \in 1..Len(community) |->
            [name |-> Get(community[k], "name"), reports |-> 1]]

----------------------------------------------------------------------------
(* Initial state: useState initial values, listeners not yet registered *)

Init ==
    /\ ui = [reports |-> <<>>,
             stats |-> [totalUsers |-> 0, totalReports |-> 0,
                        resolvedReports |-> 0],
             loading |-> TRUE,
             error |-> NoError,
             selectedReport |-> Null,
             responseText |-> ""]
    /\ subs = [n \in SubNames |-> "off"]
    /\ dbReports = [k \in ReportKeys |-> NoNode]
    /\ dbUsers = [u \in UserIds |-> IF u = "u1" THEN [email |-> "e1"] ELSE NoNode]
    /\ inv = <<>>
    /\ blk = <<>>
    /\ everResolved = {}
    /\ life = "mounted"

----------------------------------------------------------------------------
(* Environment: end users add reports *)

ExternalCreateReport ==
    \E k \in ReportKeys, t \in Templates :
        /\ ~Exists(dbReports[k])
        /\ \A j \in 1..(k - 1) : Exists(dbReports[j])
        /\ dbReports' = [dbReports EXCEPT ![k] = t]
        /\ everResolved' = IF t.status = "resolved"
                               THEN everResolved \cup {k} ELSE everResolved
        /\ UNCHANGED <<ui, subs, dbUsers, inv, blk, life>>

----------------------------------------------------------------------------
(* The effect (page.tsx 48-96) and the listeners *)

FetchData ==
    /\ \A n \in SubNames : subs[n] = "off"
    /\ ui.loading
    /\ subs' = [n \in SubNames |-> "on"]
    /\ ui' = [ui EXCEPT !.loading = FALSE]
    /\ UNCHANGED <<dbReports, dbUsers, inv, blk, everResolved, life>>

\* page.tsx 88-92: ref() throws before any listener is registered
FetchDataThrows ==
    /\ \A n \in SubNames : subs[n] = "off"
    /\ ui.loading
    /\ ui' = [ui EXCEPT
                !.error = "Unable to connect to the database. Please try again later.",
                !.loading = FALSE]
    /\ UNCHANGED <<subs, dbReports, dbUsers, inv, blk, everResolved, life>>

\* a state setter called from a listener callback takes effect only while
\* the component is mounted
Mounted == life = "mounted"
SetState(new) == IF Mounted THEN new ELSE ui
CallbackRan == IF Mounted THEN life ELSE "leaked"

ReportsSnapshot ==
    /\ subs["reports"] = "on"
    /\ ui' = SetState(OnReports(ui, ReportsData))
    /\ life' = CallbackRan
    /\ UNCHANGED <<subs, dbReports, dbUsers, inv, blk, everResolved>>

UsersSnapshot ==
    /\ subs["users"] = "on"
    /\ ui' = SetState(OnUsers(ui, UsersSize))
    /\ life' = CallbackRan
    /\ UNCHANGED <<subs, dbReports, dbUsers, inv, blk, everResolved>>

ResolvedSnapshot ==
    /\ subs["resolved"] = "on"
    /\ ui' = SetState(OnResolved(ui, ResolvedSize))
    /\ life' = CallbackRan
    /\ UNCHANGED <<subs, dbReports, dbUsers, inv, blk, everResolved>>

\* the stream faults: the listener is cancelled and its error callback runs
ReportsFault ==
    /\ subs["reports"] = "on"
    /\ subs' = [subs EXCEPT !["reports"] = "cancelled"]
    /\ ui' = SetState(OnReportsError(ui))
    /\ life' = CallbackRan
    /\ UNCHANGED <<dbReports, dbUsers, inv, blk, everResolved>>

UsersFault ==
    /\ subs["users"] = "on"
    /\ subs' = [subs EXCEPT !["users"] = "cancelled"]
    /\ ui' = SetState(OnUsersError(ui))
    /\ life' = CallbackRan
    /\ UNCHANGED <<dbReports, dbUsers, inv, blk, everResolved>>

ResolvedFault ==
    /\ subs["resolved"] = "on"
    /\ subs' = [subs EXCEPT !["resolved"] = "cancelled"]
    /\ ui' = SetState(OnResolvedError(ui))
    /\ life' = CallbackRan
    /\ UNCHANGED <<dbReports, dbUsers, inv, blk, everResolved>>

----------------------------------------------------------------------------
(* User interface events.  The page renders only the error panel once     *)
(* error is set (page.tsx 189-209), so nothing can be clicked after that. *)

Rendered == Mounted /\ ui.error = NoError
ModalOpen == ui.selectedReport # Null

\* handler invocations that have not returned yet
InFlight ==
    Cardinality({i \in 1..Len(inv) : ~inv[i].returned})
    + Cardinality({j \in 1..Len(blk) : blk[j].st \in {"inflight", "ok", "rejected"}})

\* the operator clicks a button that starts a handler
CanCall == Len(inv) + Len(blk) < MaxCalls /\ InFlight < MaxInFlight

\* page.tsx 250: onClick of a row of the list
HandleReportClick ==
    \E n \in 1..Len(ui.reports) :
        /\ Rendered
        /\ ~ui.loading
        /\ ui' = ReportClick(ui, ui.reports[n])
        /\ UNCHANGED <<subs, dbReports, dbUsers, inv, blk, everResolved, life>>

\* page.tsx 306: onChange of the textarea
TypeResponse ==
    \E t \in Texts :
        /\ Rendered
        /\ ModalOpen
        /\ ui' = [ui EXCEPT !.responseText = t]
        /\ UNCHANGED <<subs, dbReports, dbUsers, inv, blk, everResolved, life>>

\* page.tsx 322: the Close button
CloseModal ==
    /\ Rendered
    /\ ModalOpen
    /\ ui' = [ui EXCEPT !.selectedReport = Null]
    /\ UNCHANGED <<subs, dbReports, dbUsers, inv, blk, everResolved, life>>

----------------------------------------------------------------------------
(* The resolution workflow (page.tsx 98-150) *)

\* An invocation keeps the selectedReport and responseText of the render
\* whose button was clicked.  a and b are the states of its two remote
\* calls: "none", "inflight", "ok" or "rejected".
NewInvocation(r, text) ==
    [id |-> r.id, status |-> Get(r, "status"), userId |-> Get(r, "userId"),
     text |-> text, a |-> "inflight", b |-> "none", returned |-> FALSE]

\* page.tsx 133-137 and 98-105: runs up to the await of update()
HandleResponseSubmit ==
    /\ Rendered
    /\ ModalOpen
    /\ CanCall
    /\ inv' = Append(inv, NewInvocation(TheOne(ui.selectedReport),
                                        ui.responseText))
    /\ UNCHANGED <<ui, subs, dbReports, dbUsers, blk, everResolved, life>>

\* the server accepts or rejects the update of reports/<id>
ServerUpdateReport ==
    \E i \in 1..Len(inv) :
        /\ inv[i].a = "inflight"
        /\ \/ /\ inv' = [inv EXCEPT ![i].a = "ok"]
              /\ dbReports' = [dbReports EXCEPT ![inv[i].id] =
                     Update(@, StatusPatch(inv[i].status, inv[i].text, DateNow(i, "A")))]
              /\ everResolved' =
                     IF ToggledStatus(inv[i].status) = "resolved"
                         THEN everResolved \cup {inv[i].id} ELSE everResolved
           \/ /\ inv' = [inv EXCEPT ![i].a = "rejected"]
              /\ UNCHANGED <<dbReports, everResolved>>
        /\ UNCHANGED <<ui, subs, dbUsers, blk, life>>

\* page.tsx 106-110, 140 and 112-121: toggleResolveStatus returns (after its
\* catch, if the update was rejected) and sendNotificationToUser runs up to
\* the await of set()
AfterStepA ==
    \E i \in 1..Len(inv) :
        /\ StepASettled(inv[i])
        /\ inv[i].b = "none"
        /\ ui' = IF inv[i].a = "rejected" THEN ToggleCatch(ui) ELSE ui
        /\ inv' = [inv EXCEPT ![i].b = "inflight"]
        /\ UNCHANGED <<subs, dbReports, dbUsers, blk, everResolved, life>>

\* the server accepts or rejects the set of users/<uid>/notifications/<id>
ServerSetNotification ==
    \E i \in 1..Len(inv) :
        /\ inv[i].b = "inflight"
        /\ \/ /\ inv' = [inv EXCEPT ![i].b = "ok"]
              /\ dbUsers' = [dbUsers EXCEPT ![inv[i].userId] =
                     SetNotification(@, inv[i].id,
                         Notification(inv[i].id, inv[i].text, DateNow(i, "B")))]
           \/ /\ inv' = [inv EXCEPT ![i].b = "rejected"]
              /\ UNCHANGED dbUsers
        /\ UNCHANGED <<ui, subs, dbReports, blk, everResolved, life>>

\* page.tsx 122-125 and 142-148: the rest of handleResponseSubmit
AfterStepB ==
    \E i \in 1..Len(inv) :
        /\ inv[i].b \in {"ok", "rejected"}
        /\ ~inv[i].returned
        /\ ui' = IF inv[i].b = "ok" THEN SubmitSuccess(ui) ELSE SubmitCatch(ui)
        /\ inv' = [inv EXCEPT ![i].returned = TRUE]
        /\ UNCHANGED <<subs, dbReports, dbUsers, blk, everResolved, life>>

----------------------------------------------------------------------------
(* The moderation action (page.tsx 152-161) *)

\* page.tsx 316 and 152-155: runs up to the await of update()
HandleBlockUser ==
    /\ Rendered
    /\ ModalOpen
    /\ CanCall
    /\ blk' = Append(blk, [userId |-> Get(TheOne(ui.selectedReport), "userId"),
                           st |-> "inflight"])
    /\ UNCHANGED <<ui, subs, dbReports, dbUsers, inv, everResolved, life>>

\* the server accepts or rejects the update of users/<userId>
ServerBlock ==
    \E j \in 1..Len(blk) :
        /\ blk[j].st = "inflight"
        /\ \/ /\ blk' = [blk EXCEPT ![j].st = "ok"]
              /\ dbUsers' = [dbUsers EXCEPT ![blk[j].userId] = BlockWrite(@)]
           \/ /\ blk' = [blk EXCEPT ![j].st = "rejected"]
              /\ UNCHANGED dbUsers
        /\ UNCHANGED <<ui, subs, dbReports, inv, everResolved, life>>

\* page.tsx 156-160: alert() on success, the catch otherwise
AfterBlock ==
    \E j \in 1..Len(blk) :
        /\ blk[j].st \in {"ok", "rejected"}
        /\ ui' = IF blk[j].st = "rejected" THEN BlockCatch(ui) ELSE ui
        /\ blk' = [blk EXCEPT ![j].st =
                       IF blk[j].st = "ok" THEN "alerted" ELSE "failed"]
        /\ UNCHANGED <<subs, dbReports, dbUsers, inv, everResolved, life>>

----------------------------------------------------------------------------

Next ==
    \/ ExternalCreateReport
    \/ FetchData
    \/ FetchDataThrows
    \/ ReportsSnapshot
    \/ UsersSnapshot
    \/ ResolvedSnapshot
    \/ ReportsFault
    \/ UsersFault
    \/ ResolvedFault
    \/ HandleReportClick
    \/ TypeResponse
    \/ CloseModal
    \/ HandleResponseSubmit
    \/ ServerUpdateReport
    \/ AfterStepA
    \/ ServerSetNotification
    \/ AfterStepB
    \/ HandleBlockUser
    \/ ServerBlock
    \/ AfterBlock

Spec == Init /\ [][Next]_vars

----------------------------------------------------------------------------
(* The life cycle of the component.  The effect at page.tsx 48-96 calls   *)
(* fetchData() and returns nothing: it has no cleanup, and the            *)
(* unsubscribe functions that onValue returns are dropped, so unmounting  *)
(* leaves the three listeners registered.                                 *)

Unmount ==
    /\ Mounted
    /\ ~ui.loading
    /\ life' = "unmounted"
    /\ UNCHANGED <<ui, subs, dbReports, dbUsers, inv, blk, everResolved>>

NextLifecycle ==
    \/ ExternalCreateReport
    \/ FetchData
    \/ FetchDataThrows
    \/ ReportsSnapshot
    \/ UsersSnapshot
    \/ ResolvedSnapshot
    \/ ReportsFault
    \/ UsersFault
    \/ ResolvedFault
    \/ Unmount

SpecLifecycle == Init /\ [][NextLifecycle]_vars

----------------------------------------------------------------------------
(* Delivery of snapshots.  The database client calls a registered listener *)
(* with the current data after every change, so a snapshot that would     *)
(* change the projection is eventually delivered.  No stream faults here  *)
(* and the listeners get registered.                                      *)

NextLive ==
    \/ ExternalCreateReport
    \/ FetchData
    \/ ReportsSnapshot
    \/ UsersSnapshot
    \/ ResolvedSnapshot
    \/ HandleReportClick
    \/ TypeResponse
    \/ CloseModal
    \/ HandleResponseSubmit
    \/ ServerUpdateReport
    \/ AfterStepA
    \/ ServerSetNotification
    \/ AfterStepB
    \/ HandleBlockUser
    \/ ServerBlock
    \/ AfterBlock

SpecLive ==
    /\ Init
    /\ [][NextLive]_vars
    /\ WF_vars(FetchData)
    /\ WF_vars(ReportsSnapshot)
    /\ WF_vars(UsersSnapshot)
    /\ WF_vars(ResolvedSnapshot)

----------------------------------------------------------------------------
(* The chart projection over arbitrary report collections: the remote     *)
(* collection is drawn from reports of every matter type and name, and    *)
(* the listener materializes it into the list the chart is computed from. *)

ChartTemplates ==
    [status : {"pending"}, userId : {"u1"},
     matterType : {"Community", "community", "Legal"}, name : {"n1", "n2"}]
    \cup {[status |-> "pending", userId |-> "u1", name |-> "n1"]}

InitChart ==
    /\ ui = [reports |-> <<>>,
             stats |-> [totalUsers |-> 0, totalReports |-> 0,
                        resolvedReports |-> 0],
             loading |-> TRUE,
             error |-> NoError,
             selectedReport |-> Null,
             responseText |-> ""]
    /\ subs = [n \in SubNames |-> "off"]
    /\ dbReports \in {c \in [ReportKeys -> ChartTemplates \cup {NoNode}] :
                          \A k \in ReportKeys : \A j \in 1..(k - 1) :
                              Exists(c[k]) => Exists(c[j])}
    /\ dbUsers = [u \in UserIds |-> IF u = "u1" THEN [email |-> "e1"] ELSE NoNode]
    /\ inv = <<>>
    /\ blk = <<>>
    /\ everResolved = {}
    /\ life = "mounted"

NextChart ==
    \/ FetchData
    \/ ReportsSnapshot

SpecChart == InitChart /\ [][NextChart]_vars

----------------------------------------------------------------------------
(* Properties of the resolution workflow *)

Invocations == 1..Len(inv)
BlockCalls == 1..Len(blk)

\* the step in which the server accepts invocation i's update of reports/<id>
StepAApplied(i) ==
    i \in Invocations /\ inv[i].a = "inflight" /\ i \in 1..Len(inv')
    /\ inv'[i].a = "ok"

\* the step in which invocation i runs the code after its second await
Returns(i) ==
    i \in Invocations /\ ~inv[i].returned /\ i \in 1..Len(inv')
    /\ inv'[i].returned

\* C1: if the update of step A is rejected, the invocation writes no
\* notification record: its set() of users/<uid>/notifications/<id> is never
\* accepted, because the workflow stops before step B.
StepAFailureAborts ==
    \A i \in Invocations : inv[i].a = "rejected" => inv[i].b # "ok"

\* C2: when step A succeeded and step B is rejected, the code after the
\* await leaves the report as step A wrote it (no write to reports/), sets
\* the error, and keeps the selected report and the draft text; when both
\* steps succeeded it clears the selected report and the draft and does not
\* touch the error.  With the modal still open the two outcomes differ in
\* selectedReport.
PartialFailureVisible ==
    [][\A i \in Invocations :
          Returns(i) =>
              /\ dbReports' = dbReports
              /\ (inv[i].a = "ok" /\ inv[i].b = "rejected") =>
                    /\ ui'.error # NoError
                    /\ ui'.selectedReport = ui.selectedReport
                    /\ ui'.responseText = ui.responseText
                    /\ (ui.selectedReport # Null => ui'.selectedReport # Null)
              /\ (inv[i].a = "ok" /\ inv[i].b = "ok") =>
                    /\ ui'.selectedReport = Null
                    /\ ui'.responseText = ""
                    /\ ui'.error = ui.error]_vars

\* C2 witness: an invocation whose step A was accepted and step B rejected
\* has returned; the error is the one of handleResponseSubmit's catch, the
\* modal still holds the report and the remote report has the status that
\* step A wrote.
PartialFailureReached ==
    \E i \in Invocations :
        /\ inv[i].returned /\ inv[i].a = "ok" /\ inv[i].b = "rejected"
        /\ ui.error = "Failed to submit response. Please try again."
        /\ ui.selectedReport # Null
        /\ dbReports[inv[i].id].status # inv[i].status

\* C3: step B of an invocation is issued only after its step A has settled;
\* the two remote calls of one invocation are never in flight together.
StepsSequential ==
    \A i \in Invocations :
        /\ inv[i].b # "none" => inv[i].a \in {"ok", "rejected"}
        /\ ~(inv[i].a = "inflight" /\ inv[i].b = "inflight")

\* C3 witness: the notification write is in flight after an accepted update.
StepBInFlightAfterA ==
    \E i \in Invocations : inv[i].a = "ok" /\ inv[i].b = "inflight"

\* C4: an accepted step A writes the opposite of the status the caller
\* supplied: 'resolved' for 'pending', 'pending' for 'resolved', whatever
\* the response text is.
PureToggle ==
    [][\A i \in Invocations :
          StepAApplied(i) =>
              /\ inv[i].status = "pending" =>
                    dbReports'[inv[i].id].status = "resolved"
              /\ inv[i].status = "resolved" =>
                    dbReports'[inv[i].id].status = "pending"]_vars

\* C4 witness: both directions have been written, one of them with a
\* non-empty response text and one with an empty one.
BothDirectionsToggled ==
    \E i, j \in Invocations :
        /\ inv[i].a = "ok" /\ inv[i].status = "pending" /\ inv[i].text = ""
        /\ inv[j].a = "ok" /\ inv[j].status = "resolved" /\ inv[j].text # ""

----------------------------------------------------------------------------
(* Properties of the projection *)

\* C5: the reports list and stats.totalReports always agree.
LengthMatchesTotal == Len(ui.reports) = ui.stats.totalReports

\* C5 witness: a snapshot with two reports has been delivered and a workflow
\* invocation has run to its end.
TwoReportsListed ==
    /\ Len(ui.reports) = MaxReports
    /\ \E i \in Invocations : inv[i].returned

\* C6: the id of every materialized report is its collection key.  Keys are
\* handed out in order and never removed, so the n-th child of a snapshot
\* has key n.
IdIsCollectionKey ==
    \A n \in 1..Len(ui.reports) : ui.reports[n].id = n

\* C7: when the stream of any of the three listeners faults, the error slot
\* is non-null afterwards.
EveryFaultSetsError ==
    [][\A n \in SubNames :
          (subs[n] = "on" /\ subs'[n] = "cancelled") => ui'.error # NoError]_vars

\* C8: a report has resolvedAt exactly if its status has been 'resolved' at
\* some time; a toggle back to 'pending' keeps resolvedAt.
ResolvedAtIffEverResolved ==
    \A k \in ReportKeys :
        Exists(dbReports[k]) =>
            (("resolvedAt" \in DOMAIN dbReports[k]) <=> (k \in everResolved))

----------------------------------------------------------------------------
(* Properties of the moderation action *)

\* the step in which the server accepts block call j
BlockApplied(j) ==
    j \in BlockCalls /\ blk[j].st = "inflight" /\ j \in 1..Len(blk')
    /\ blk'[j].st = "ok"

\* C9: an accepted block leaves blocked = true and changes no other field of
\* the user (notifications included) and no other user; applied to a user
\* that is already blocked it changes nothing; and the code after the await
\* of an accepted block sets no error.
BlockIdempotent ==
    [][\A j \in BlockCalls :
          /\ BlockApplied(j) =>
                LET u == blk[j].userId IN
                /\ dbUsers'[u].blocked = TRUE
                /\ \A f \in DOMAIN dbUsers[u] \ {"blocked"} :
                       f \in DOMAIN dbUsers'[u] /\ dbUsers'[u][f] = dbUsers[u][f]
                /\ DOMAIN dbUsers'[u] = DOMAIN dbUsers[u] \cup {"blocked"}
                /\ \A w \in UserIds \ {u} : dbUsers'[w] = dbUsers[w]
                /\ ("blocked" \in DOMAIN dbUsers[u] /\ dbUsers[u].blocked = TRUE)
                       => dbUsers' = dbUsers
          /\ (blk[j].st = "ok" /\ j \in 1..Len(blk') /\ blk'[j].st = "alerted")
                => ui' = ui]_vars

\* C9 witness: two block calls for the same user have both been accepted and
\* have both returned, and no error is set.
BlockedTwice ==
    \E i, j \in BlockCalls :
        /\ i < j
        /\ blk[i].userId = blk[j].userId
        /\ blk[i].st = "alerted" /\ blk[j].st = "alerted"
        /\ dbUsers[blk[i].userId].blocked = TRUE
        /\ ui.error = NoError

----------------------------------------------------------------------------
(* Frame of the projection *)

\* C10: a step of the workflow or of the block action (any step that starts,
\* settles or resumes an invocation) leaves reports and stats as they are;
\* they change only in a step that changes neither an invocation nor the
\* database, with the listener of the changed slice registered.
ProjectionOnlyBySnapshots ==
    [][/\ (inv' # inv \/ blk' # blk) =>
              (ui'.reports = ui.reports /\ ui'.stats = ui.stats)
       /\ (ui'.reports # ui.reports \/ ui'.stats # ui.stats) =>
              /\ dbReports' = dbReports /\ dbUsers' = dbUsers
              /\ \E n \in SubNames : subs[n] = "on"]_vars

\* C10 witness: a workflow invocation has succeeded in both steps and the
\* list still shows the report as it was before the update.
StaleAfterWorkflow ==
    \E i \in Invocations :
        /\ inv[i].returned /\ inv[i].a = "ok" /\ inv[i].b = "ok"
        /\ Len(ui.reports) > 0
        /\ ui.reports # ReportsData
        /\ \E j \in BlockCalls : blk[j].st = "alerted"

----------------------------------------------------------------------------
(* Notifications *)

\* users/<u>/notifications, empty when the user has none
NotificationsOf(u) ==
    IF "notifications" \in DOMAIN dbUsers[u] THEN dbUsers[u].notifications
    ELSE NoNode

\* the report a stored notification is about (the id in its message)
ReportOf(rec) == rec.message[2]

\* the step in which the server accepts invocation i's notification write
StepBApplied(i) ==
    i \in Invocations /\ inv[i].b = "inflight" /\ i \in 1..Len(inv')
    /\ inv'[i].b = "ok"

\* C11: a user never holds two notification records about the same report:
\* every record is stored under the id of the report it is about.  An
\* accepted step B leaves under that id the record it wrote, adds no other
\* record and keeps the records about other reports.
OneNotificationPerReport ==
    [][/\ \A u \in UserIds :
            LET ns == IF "notifications" \in DOMAIN dbUsers'[u]
                          THEN dbUsers'[u].notifications ELSE NoNode
            IN \A k1, k2 \in DOMAIN ns :
                   ReportOf(ns[k1]) = ReportOf(ns[k2]) => k1 = k2
       /\ \A i \in Invocations :
            StepBApplied(i) =>
                LET u == inv[i].userId
                    old == NotificationsOf(u)
                    new == dbUsers'[u].notifications
                IN /\ DOMAIN new = DOMAIN old \cup {inv[i].id}
                   /\ new[inv[i].id].response = inv[i].text
                   /\ new[inv[i].id].createdAt = DateNow(i, "B")
                   /\ ReportOf(new[inv[i].id]) = inv[i].id
                   /\ \A k \in DOMAIN old \ {inv[i].id} : new[k] = old[k]]_vars

\* C11 witness: two invocations for the same user and report have both had
\* their notification accepted; the user holds one record about that report,
\* the one of the second invocation.
NotificationOverwritten ==
    \E i, j \in Invocations :
        /\ i < j
        /\ inv[i].userId = inv[j].userId /\ inv[i].id = inv[j].id
        /\ inv[i].b = "ok" /\ inv[j].b = "ok"
        /\ inv[i].text # inv[j].text
        /\ Cardinality(DOMAIN NotificationsOf(inv[j].userId)) = 1
        /\ NotificationsOf(inv[j].userId)[inv[j].id].response = inv[j].text

----------------------------------------------------------------------------
(* Properties of the life cycle *)

\* C12: after the component is torn down, no snapshot or error callback of
\* any of the three subscriptions runs (stated as the spec has it; the code
\* never unsubscribes)
NoCallbackAfterTeardown == life # "leaked"

----------------------------------------------------------------------------
(* Properties of the chart projection *)

\* positions of the listed reports whose matterType is exactly 'Community'
CommunityIndexes ==
    {n \in 1..Len(ui.reports) :
        /\ "matterType" \in DOMAIN ui.reports[n]
        /\ ui.reports[n].matterType = "Community"}

\* the number of Community reports listed at or before position n
Rank(n) == Cardinality({m \in CommunityIndexes : m <= n})

\* C13: communityChartData has exactly one entry per listed report whose
\* matterType is exactly 'Community', in the order of the list, each entry
\* being {name: the report's name, reports: 1}; reports sharing a name give
\* separate entries and other matter types give none
ChartIsCommunityProjection ==
    LET chart == CommunityChartData(ui.reports)
    IN  /\ Len(chart) = Cardinality(CommunityIndexes)
        /\ \A n \in CommunityIndexes :
               chart[Rank(n)] = [name |-> ui.reports[n].name, reports |-> 1]

\* C13 witness: two Community reports share a name and stay two entries
SameNameCharted ==
    /\ CommunityIndexes = {1, 2}
    /\ ui.reports[1].name = ui.reports[2].name
    /\ Len(CommunityChartData(ui.reports)) = 2

\* a list that mixes matter types and names, charted in list order
MixedListCharted ==
    /\ Len(ui.reports) = 2
    /\ CommunityIndexes = {2}
    /\ CommunityChartData(ui.reports) = <<[name |-> "n2", reports |-> 1]>>

----------------------------------------------------------------------------
(* The workflow state at the end of an invocation *)

BothStepsOk(i) == inv[i].a = "ok" /\ inv[i].b = "ok"

\* C14: when both step A and step B of an invocation succeed, the end of
\* the invocation clears the selected report and empties the draft text
SuccessResetsWorkflowState ==
    [][\A i \in Invocations :
          (Returns(i) /\ BothStepsOk(i)) =>
              /\ ui'.selectedReport = Null
              /\ ui'.responseText = ""]_vars

\* C14 witness: an invocation submitted with a non-empty draft has returned
\* after two accepted writes, and the modal is closed with an empty draft
SuccessResetReached ==
    \E i \in Invocations :
        /\ inv[i].returned /\ BothStepsOk(i)
        /\ inv[i].text # ""
        /\ i = Len(inv)
        /\ ui.selectedReport = Null
        /\ ui.responseText = ""
        /\ ui.error = NoError

----------------------------------------------------------------------------
(* Failures of the remote writes *)

\* the step in which invocation i leaves toggleResolveStatus
LeavesStepA(i) ==
    i \in Invocations /\ inv[i].b = "none" /\ i \in 1..Len(inv')
    /\ inv'[i].b = "inflight"

\* the step in which block call j runs the code after its await
BlockReturns(j) ==
    j \in BlockCalls /\ blk[j].st \in {"ok", "rejected"} /\ j \in 1..Len(blk')
    /\ blk'[j].st \in {"alerted", "failed"}

\* C15: every rejected remote write is caught inside its handler, and the
\* catch puts that failure's message in the error slot, whatever the slot
\* held before; a handler that ends without a new failure leaves the slot
\* as it is
LatestFailureShown ==
    [][/\ \A i \in Invocations :
            /\ (LeavesStepA(i) /\ inv[i].a = "rejected") =>
                   ui'.error =
                     "Unable to update report status. Please check your permissions."
            /\ (Returns(i) /\ inv[i].b = "rejected") =>
                   ui'.error = "Failed to submit response. Please try again."
            /\ (Returns(i) /\ inv[i].b = "ok") => ui'.error = ui.error
       /\ \A j \in BlockCalls :
            /\ (BlockReturns(j) /\ blk[j].st = "rejected") =>
                   /\ blk'[j].st = "failed"
                   /\ ui'.error =
                        "Unable to block user. Please check your permissions."
            /\ (BlockReturns(j) /\ blk[j].st = "ok") => ui'.error = ui.error
      ]_vars

\* C15 witness: both writes of one invocation were rejected; the message of
\* step A was shown first and the later failure of step B replaced it
LaterFailureReplacedEarlier ==
    \E i \in Invocations :
        /\ inv[i].returned
        /\ inv[i].a = "rejected" /\ inv[i].b = "rejected"
        /\ ui.error = "Failed to submit response. Please try again."

----------------------------------------------------------------------------
(* Interleaving of the three listeners *)

\* C16: whatever the order of the listener callbacks, a step that changes
\* the list or totalReports changes nothing else of the projection, a step
\* that changes totalUsers changes only totalUsers, a step that changes
\* resolvedReports changes only resolvedReports, and the value written is
\* the one of the delivered snapshot; the stats a callback does not own keep
\* the values their own callbacks wrote last
CallbacksOwnTheirSlice ==
    [][/\ (ui'.reports # ui.reports
            \/ ui'.stats.totalReports # ui.stats.totalReports) =>
               /\ ui' = [ui EXCEPT !.reports = ui'.reports,
                                   !.stats.totalReports = ui'.stats.totalReports]
               /\ ui'.reports = ReportsData
               /\ ui'.stats.totalReports = Len(ReportsData)
       /\ ui'.stats.totalUsers # ui.stats.totalUsers =>
               /\ ui' = [ui EXCEPT !.stats.totalUsers = UsersSize]
       /\ ui'.stats.resolvedReports # ui.stats.resolvedReports =>
               /\ ui' = [ui EXCEPT !.stats.resolvedReports = ResolvedSize]
      ]_vars

\* C16 witness: all three callbacks have written, in some order, and each
\* of the three stats still holds a value that its own callback wrote
AllSlicesWritten ==
    /\ ui.stats.totalReports = 2
    /\ ui.stats.totalUsers = 2
    /\ ui.stats.resolvedReports = 1
    /\ Len(ui.reports) = 2

\* C17: the listeners are not coordinated, so resolvedReports can exceed
\* totalReports; it does so only while the list is behind the remote
\* collection, that is, while a reports snapshot is still to be delivered
ResolvedAboveTotalOnlyWhileListBehind ==
    ui.stats.resolvedReports > ui.stats.totalReports =>
        Len(ui.reports) < Len(ReportsData)

\* C17 witness: the resolved count was delivered before the reports snapshot
ResolvedAboveTotal == ui.stats.resolvedReports > ui.stats.totalReports

----------------------------------------------------------------------------
(* Convergence of the projection *)

RemoteKeys == {k \in ReportKeys : Exists(dbReports[k])}

\* the n-th entry of the list carries every field of the n-th remote report
\* other than a stored id
ListReflectsRemote ==
    /\ Len(ui.reports) = Cardinality(RemoteKeys)
    /\ \A k \in RemoteKeys :
           \A f \in DOMAIN dbReports[k] \ {"id"} :
               /\ f \in DOMAIN ui.reports[k]
               /\ ui.reports[k][f] = dbReports[k][f]

ProjectionCurrent ==
    /\ ListReflectsRemote
    /\ ui.stats.totalReports = Cardinality(RemoteKeys)
    /\ ui.stats.totalUsers = Cardinality({u \in UserIds : Exists(dbUsers[u])})
    /\ ui.stats.resolvedReports =
           Cardinality({k \in RemoteKeys : dbReports[k].status = "resolved"})

\* C18: without stream faults and with every outstanding snapshot
\* eventually delivered, once the remote collections stop changing the
\* projection reaches and stays in a state where the list carries the
\* remote reports (statuses written by step A included), totalReports and
\* totalUsers are the remote counts and resolvedReports is the number of
\* remote reports with status 'resolved'
EventuallyCurrent == <>[]ProjectionCurrent

\* C18 witness: a status written by an accepted step A has come back
\* through the listeners and the whole projection is current
WrittenStatusReflected ==
    \E i \in Invocations :
        /\ inv[i].a = "ok"
        /\ ProjectionCurrent
        /\ dbReports[inv[i].id].status = ToggledStatus(inv[i].status)
        /\ ui.reports[inv[i].id].status = ToggledStatus(inv[i].status)
        /\ ui.stats.resolvedReports > 0

----------------------------------------------------------------------------
(* Step A against the remote status *)

\* no remote report stores an id field that differs from its key, so every
\* list entry names the report it was read from
IdsFaithful ==
    \A k \in ReportKeys :
        (Exists(dbReports[k]) /\ "id" \in DOMAIN dbReports[k]) =>
            dbReports[k].id = k

\* C19 as stated: every accepted step A changes the remote status to the
\* opposite of the value the remote store held just before the write
StepAFlipsRemoteStatus ==
    [][\A i \in Invocations :
          (StepAApplied(i) /\ IdsFaithful) =>
              dbReports'[inv[i].id].status =
                  ToggledStatus(dbReports[inv[i].id].status)]_vars

\* C19 amended: an accepted step A flips the remote status exactly when
\* the status captured at click time is the one the remote store holds
\* just before the write; when the captured status is out of date the
\* write leaves the remote status as it is
StepAFlipsIffCapturedCurrent ==
    [][\A i \in Invocations :
          StepAApplied(i) =>
              LET old == dbReports[inv[i].id].status
                  new == dbReports'[inv[i].id].status
              IN  /\ inv[i].status = old => new = ToggledStatus(old)
                  /\ inv[i].status # old => new = old]_vars

\* C19 witness: two accepted submissions of the same report captured the
\* same status from a list that was not refreshed in between, and the
\* remote status is what the first one wrote
StaleResubmission ==
    \E i, j \in Invocations :
        /\ i < j
        /\ IdsFaithful
        /\ inv[i].id = inv[j].id
        /\ inv[i].status = inv[j].status
        /\ inv[i].a = "ok" /\ inv[j].a = "ok"
        /\ dbReports[inv[j].id].status = ToggledStatus(inv[j].status)

\* C20: the end of an invocation clears the selected report and the draft
\* only if both of its steps succeeded; when either step was rejected both
\* are left as they were (stated as the spec has it)
ResetOnlyAfterFullSuccess ==
    [][\A i \in Invocations :
          (Returns(i) /\ ~BothStepsOk(i)) =>
              /\ ui'.selectedReport = ui.selectedReport
              /\ ui'.responseText = ui.responseText]_vars

====
